---- MODULE Spec2Model ----
(***************************************************************************)
(* Model of the batch lookup engine: batch_ip_lookup.py (BatchIpLookup.run,*)
(* ApiClient.lookup, the ThreadPoolExecutor it drives) and                 *)
(* src/script/reqapi.py (the global rate-limit watermark, its lock,        *)
(* _wait_for_rate_limit, _handle_rate_limit, reqapi_ia_get_result).        *)
(*                                                                         *)
(* One lookup task per item of the current chunk; the main thread submits  *)
(* a chunk, collects the futures as they complete and appends the chunk's  *)
(* records to the results file.  Time is a discrete clock advanced by Tick.*)
(***************************************************************************)
EXTENDS Integers, Sequences, FiniteSets, TLC

\* ------------------------------------------------------------------ bounds
MaxItems == 3
MaxWorkers == 2
MaxChunkSize == 2
MaxTime == 3
MaxTTL == 2
MaxLoopItems == 5
MaxLoopChunk == 4
MaxLiveItems == 2

Names == {"a.com", "b.com"}

\* `wait` of _wait_for_rate_limit before its first assignment (an unbound local)
Unbound == -1

VARIABLES
    domains,            \* run(): the list DomainReader.read returned
    total,              \* run(): len(domains)
    workers,            \* BatchIpLookup.workers
    CHUNK_SIZE,         \* module constant CHUNK_SIZE
    inputFile,          \* the file at args.input: "missing", "unreadable" or "ok"
    response,           \* SpecHeaders: the response requests.get is about to return
    mainPc,             \* position of the main thread in run() / __main__
    start,              \* loop variable of `for start in range(0, total, CHUNK_SIZE)`
    chunks,             \* the values of start, end, chunk of each loop iteration, in order
    records,            \* run(): the records list of the current chunk
    idx,                \* enumerate counter of the as_completed loop
    progress,           \* the "icon [idx/total] domain" log lines, in order
    sink,               \* data rows of the results CSV
    saved,              \* number of chunks whose to_csv append returned
    exitStatus,         \* process exit status (-1 while running)
    pc,                 \* per item: position of its lookup task
    now,                \* per item: local `now` of _wait_for_rate_limit
    wait,               \* per item: local `wait` of _wait_for_rate_limit / _handle_rate_limit
    wakeAt,             \* per item: earliest clock at which its time.sleep returns
    body,               \* per item: what resp.json() will give
    httpStatus,         \* per item: resp.status_code of its task's response (0: none)
    sent,               \* per item: number of HTTP requests issued for it
    result,             \* per item: value of its future ("none", "ok", "fail")
    clock,              \* time.time()
    next_allowed_time,  \* reqapi._next_allowed_time
    rate_limit_lock     \* reqapi._rate_limit_lock: 0 free, else the holder

vars == <<domains, total, workers, CHUNK_SIZE, inputFile, response, mainPc, start, chunks, records, idx,
          progress, sink, saved, exitStatus, pc, now, wait, wakeAt, body,
          httpStatus, sent, result, clock, next_allowed_time, rate_limit_lock>>

mainVars == <<mainPc, start, chunks, records, idx, progress, sink, saved, exitStatus>>
inputVars == <<domains, total, workers, CHUNK_SIZE, inputFile, response>>
limiterVars == <<next_allowed_time, rate_limit_lock>>

Items == 1..total

Min(a, b) == IF a < b THEN a ELSE b

\* ------------------------------------------------------------ pure helpers

\* run(): end = min(start + CHUNK_SIZE, total)
ChunkEnd(s, size, n) == Min(s + size, n)

\* a slice that starts one item late
ChunkOf_OffByOne(ds, s, size) == SubSeq(ds, s + 2, ChunkEnd(s, size, Len(ds)))

\* run(): chunk = domains[start:end]
ChunkOf(ds, s, size) == SubSeq(ds, s + 1, ChunkEnd(s, size, Len(ds)))

\* run(): the locals start, end and chunk of one loop iteration
ChunkRec(ds, s, size) ==
    [start |-> s, end |-> ChunkEnd(s, size, Len(ds)), items |-> ChunkOf(ds, s, size)]

\* range(0, total, CHUNK_SIZE): the value of start after s
NextStart(s, size) == s + size

\* items (1-based positions) of the chunk that starts at s
ChunkItems(s) == (s + 1)..ChunkEnd(s, CHUNK_SIZE, total)

\* ApiClient.lookup: the dict built for a successful lookup
Record(d) == [domain |-> d]

\* ------------------------------------------------------------ HTTP responses

\* a header of the response: absent, not an integer, or an integer
Absent == [kind |-> "absent", val |-> 0]
Malformed == [kind |-> "bad", val |-> 0]
IntHeader(v) == [kind |-> "int", val |-> v]

RlValues == {Absent, Malformed, IntHeader(0), IntHeader(1)}
TtlValues == {Absent, Malformed} \cup {IntHeader(v) : v \in 0..MaxTTL}

\* resp.status_code values the server answers with
StatusCodes == {200, 503}
\* Retry(status_forcelist=[500, 502, 503, 504]) of ApiClient.__init__
RetryStatuses == {500, 502, 503, 504}

\* what resp.json() gives: the success sentinel, another status, or a parse error
Bodies == {"success", "fail", "malformed"}

\* no response singled out: Spec draws each response when it arrives
NoResponse == [rl |-> Absent, ttl |-> Absent, body |-> "none"]

\* _handle_rate_limit lines 36-41: int() of either header raises ValueError
ParseFails(rl, ttl) == rl.kind = "bad" \/ ttl.kind = "bad"

\* a test `if not remaining` in place of `remaining == 0`: None counts as 0
LimitWait_NoneAsZero(rl, ttl) ==
    IF ParseFails(rl, ttl) THEN 0
    ELSE IF (rl.kind = "absent" \/ rl.val = 0) /\ ttl.kind = "int" /\ ttl.val > 0
         THEN ttl.val
         ELSE 0

\* _handle_rate_limit lines 37-38 and 45: the number of seconds the call sets the
\* watermark ahead and then sleeps; 0 when the call leaves the watermark alone
LimitWait(rl, ttl) ==
    IF ParseFails(rl, ttl) THEN 0
    ELSE IF rl.kind = "int" /\ rl.val = 0 /\ ttl.kind = "int" /\ ttl.val > 0
         THEN ttl.val
         ELSE 0

\* ApiClient.lookup lines 96-108 on the dict reqapi_ia_get_result returned:
\* a parse error became {} (line 67), whose status is not 'success'
LookupResult(b) == IF b = "success" THEN "ok" ELSE "fail"

\* a sleep that returns one tick early
SleepUntil_Early(t, secs) == t + secs - 1

\* time.sleep(secs) started at time t returns no earlier than this
SleepUntil(t, secs) == t + secs

\* ------------------------------------------------------------ the pool

\* positions of a task that occupies a pool thread
Running == {"w_lock", "w_check", "w_recheck", "w_sleep", "send", "inflight",
            "h_lock", "h_set", "h_sleep"}

InFlight == {i \in Items : pc[i] \in Running}

\* a pool that starts every queued task at once
SlotFree_Unbounded == TRUE

\* ThreadPoolExecutor(max_workers=self.workers): a queued task starts when fewer
\* than max_workers threads are busy, in submission order
SlotFree == Cardinality(InFlight) < workers

StartLookup(i) ==
    /\ pc[i] = "queued"
    /\ \A j \in Items : pc[j] = "queued" => i <= j
    /\ SlotFree
    /\ pc' = [pc EXCEPT ![i] = "w_lock"]
    /\ UNCHANGED <<inputVars, mainVars, now, wait, wakeAt, body, httpStatus, sent,
                   result, clock, limiterVars>>

\* ------------------------------------------------- _wait_for_rate_limit

\* line 19: with _rate_limit_lock
WaitAcquire(i) ==
    /\ pc[i] = "w_lock"
    /\ rate_limit_lock = 0
    /\ rate_limit_lock' = i
    /\ pc' = [pc EXCEPT ![i] = "w_check"]
    /\ UNCHANGED <<inputVars, mainVars, now, wait, wakeAt, body, httpStatus, sent,
                   result, clock, next_allowed_time>>

\* a locked check that keeps the lock when it returns
WaitCheck_KeepsLock(i) ==
    /\ pc[i] = "w_check"
    /\ now' = [now EXCEPT ![i] = clock]
    /\ wait' = [wait EXCEPT ![i] = IF clock < next_allowed_time
                                   THEN next_allowed_time - clock
                                   ELSE Unbound]
    /\ pc' = [pc EXCEPT ![i] = "w_recheck"]
    /\ UNCHANGED <<inputVars, mainVars, wakeAt, body, httpStatus, sent, result,
                   clock, limiterVars>>

\* lines 20-23: the locked check; `wait` is assigned only when now < watermark
WaitCheck(i) ==
    /\ pc[i] = "w_check"
    /\ now' = [now EXCEPT ![i] = clock]
    /\ wait' = [wait EXCEPT ![i] = IF clock < next_allowed_time
                                   THEN next_allowed_time - clock
                                   ELSE Unbound]
    /\ rate_limit_lock' = 0
    /\ pc' = [pc EXCEPT ![i] = "w_recheck"]
    /\ UNCHANGED <<inputVars, mainVars, wakeAt, body, httpStatus, sent, result,
                   clock, next_allowed_time>>

\* lines 25-26: the second check reads the watermark again, without the lock.
\* If it is true and `wait` was never assigned, time.sleep(wait) raises
\* UnboundLocalError, which leaves reqapi_ia_get_result (the call is outside its
\* try) and is caught by ApiClient.lookup (lines 92-94), which returns None.
WaitRecheck(i) ==
    /\ pc[i] = "w_recheck"
    /\ IF now[i] < next_allowed_time
       THEN IF wait[i] = Unbound
            THEN /\ pc' = [pc EXCEPT ![i] = "finished"]
                 /\ result' = [result EXCEPT ![i] = "fail"]
                 /\ now' = [now EXCEPT ![i] = 0]
                 /\ wait' = [wait EXCEPT ![i] = 0]
                 /\ UNCHANGED wakeAt
            ELSE /\ pc' = [pc EXCEPT ![i] = "w_sleep"]
                 /\ wakeAt' = [wakeAt EXCEPT ![i] = SleepUntil(clock, wait[i])]
                 /\ UNCHANGED <<result, now, wait>>
       ELSE /\ pc' = [pc EXCEPT ![i] = "send"]
            /\ UNCHANGED <<result, now, wait, wakeAt>>
    /\ UNCHANGED <<inputVars, mainVars, body, httpStatus, sent, clock, limiterVars>>

\* line 26: time.sleep(wait) returns; _wait_for_rate_limit returns
WaitWake(i) ==
    /\ pc[i] = "w_sleep"
    /\ clock >= wakeAt[i]
    /\ pc' = [pc EXCEPT ![i] = "send"]
    /\ wakeAt' = [wakeAt EXCEPT ![i] = 0]
    /\ UNCHANGED <<inputVars, mainVars, now, wait, body, httpStatus, sent, result,
                   clock, limiterVars>>

\* ------------------------------------------------- reqapi_ia_get_result

\* line 61: requests.get(url, timeout=10) issues the request
Send(i) ==
    /\ pc[i] = "send"
    /\ pc' = [pc EXCEPT ![i] = "inflight"]
    /\ sent' = [sent EXCEPT ![i] = @ + 1]
    /\ now' = [now EXCEPT ![i] = 0]
    /\ wait' = [wait EXCEPT ![i] = 0]
    /\ UNCHANGED <<inputVars, mainVars, wakeAt, body, httpStatus, result, clock,
                   limiterVars>>

\* the task returns from ApiClient.lookup with outcome r: its future is done
Finish(i, r) ==
    /\ pc' = [pc EXCEPT ![i] = "finished"]
    /\ result' = [result EXCEPT ![i] = r]
    /\ body' = [body EXCEPT ![i] = "none"]
    /\ wait' = [wait EXCEPT ![i] = 0]
    /\ wakeAt' = [wakeAt EXCEPT ![i] = 0]

\* a transport error that escapes: the future holds the exception, and
\* future.result() raises it in run(), which ends the run
TransportError_Raises(i) ==
    /\ pc[i] = "inflight"
    /\ mainPc = "collect"
    /\ pc' = [pc EXCEPT ![i] = "collected"]
    /\ mainPc' = "failed"
    /\ exitStatus' = 1
    /\ UNCHANGED <<inputVars, start, chunks, records, idx, progress, sink, saved,
                   now, wait, wakeAt, body, httpStatus, sent, result, clock,
                   limiterVars>>

\* line 61 raises (timeout, connection error): except at line 65 returns {}
TransportError(i) ==
    /\ pc[i] = "inflight"
    /\ Finish(i, LookupResult("malformed"))
    /\ UNCHANGED <<inputVars, mainVars, now, httpStatus, sent, clock, limiterVars>>

\* lines 61-64 with a response whose headers do not exhaust the limit:
\* _handle_rate_limit returns at once, then resp.json()
ReceiveOf(i, st, rl, ttl, b) ==
    /\ pc[i] = "inflight"
    /\ LimitWait(rl, ttl) = 0
    /\ httpStatus' = [httpStatus EXCEPT ![i] = st]
    /\ Finish(i, LookupResult(b))
    /\ UNCHANGED <<inputVars, mainVars, now, sent, clock, limiterVars>>

Receive(i) ==
    /\ pc[i] = "inflight"
    /\ \E st \in StatusCodes, rl \in RlValues, ttl \in TtlValues, b \in Bodies :
          ReceiveOf(i, st, rl, ttl, b)

\* lines 61-63 and 28-45 with X-Rl: 0 and X-Ttl > 0: the call goes on to the lock
\* (the server announces only limits that end by MaxTime, which keeps time finite)
ReceiveLimitOf(i, st, rl, ttl, b) ==
    /\ pc[i] = "inflight"
    /\ LimitWait(rl, ttl) > 0
    /\ clock + LimitWait(rl, ttl) <= MaxTime
    /\ httpStatus' = [httpStatus EXCEPT ![i] = st]
    /\ body' = [body EXCEPT ![i] = b]
    /\ wait' = [wait EXCEPT ![i] = LimitWait(rl, ttl)]
    /\ pc' = [pc EXCEPT ![i] = "h_lock"]
    /\ UNCHANGED <<inputVars, mainVars, now, wakeAt, sent, result, clock, limiterVars>>

ReceiveLimit(i) ==
    /\ pc[i] = "inflight"
    /\ \E st \in StatusCodes, rl \in RlValues, ttl \in TtlValues, b \in Bodies :
          ReceiveLimitOf(i, st, rl, ttl, b)

\* ------------------------------------------------- _handle_rate_limit

\* line 48: with _rate_limit_lock
HandleAcquire(i) ==
    /\ pc[i] = "h_lock"
    /\ rate_limit_lock = 0
    /\ rate_limit_lock' = i
    /\ pc' = [pc EXCEPT ![i] = "h_set"]
    /\ UNCHANGED <<inputVars, mainVars, now, wait, wakeAt, body, httpStatus, sent,
                   result, clock, next_allowed_time>>

\* line 49: the value written to the watermark at time t for a TTL of secs
NewWatermark(old, t, secs) == t + secs

\* a handler whose sleep is inside the with block: the lock stays held
HandleSet_SleepsInLock(i) ==
    /\ pc[i] = "h_set"
    /\ next_allowed_time' = NewWatermark(next_allowed_time, clock, wait[i])
    /\ wakeAt' = [wakeAt EXCEPT ![i] = SleepUntil(clock, wait[i])]
    /\ pc' = [pc EXCEPT ![i] = "h_sleep"]
    /\ UNCHANGED <<inputVars, mainVars, now, wait, body, httpStatus, sent, result,
                   clock, rate_limit_lock>>

\* a handler that only records the limit and returns (no time.sleep)
HandleSet_NoSleep(i) ==
    /\ pc[i] = "h_set"
    /\ next_allowed_time' = NewWatermark(next_allowed_time, clock, wait[i])
    /\ rate_limit_lock' = 0
    /\ Finish(i, LookupResult(body[i]))
    /\ UNCHANGED <<inputVars, mainVars, now, httpStatus, sent, clock>>

\* lines 49-51: write the watermark, leave the lock, time.sleep(wait)
HandleSet(i) ==
    /\ pc[i] = "h_set"
    /\ next_allowed_time' = NewWatermark(next_allowed_time, clock, wait[i])
    /\ rate_limit_lock' = 0
    /\ wakeAt' = [wakeAt EXCEPT ![i] = SleepUntil(clock, wait[i])]
    /\ pc' = [pc EXCEPT ![i] = "h_sleep"]
    /\ UNCHANGED <<inputVars, mainVars, now, wait, body, httpStatus, sent, result,
                   clock>>

\* line 51 returns, then line 64 resp.json() and ApiClient.lookup lines 96-108
HandleWake(i) ==
    /\ pc[i] = "h_sleep"
    /\ clock >= wakeAt[i]
    /\ Finish(i, LookupResult(body[i]))
    /\ UNCHANGED <<inputVars, mainVars, now, httpStatus, sent, clock, limiterVars>>

\* any step of the lookup task of item i
TaskStep(i) ==
    \/ StartLookup(i)
    \/ WaitAcquire(i)
    \/ WaitCheck(i)
    \/ WaitRecheck(i)
    \/ WaitWake(i)
    \/ Send(i)
    \/ TransportError(i)
    \/ Receive(i)
    \/ ReceiveLimit(i)
    \/ HandleAcquire(i)
    \/ HandleSet(i)
    \/ HandleWake(i)

\* ------------------------------------------------------------ time

Sleeping == {i \in Items : pc[i] \in {"w_sleep", "h_sleep"}}

\* time passes; beyond MaxTime only as far as a sleeping task still needs
Tick ==
    /\ \/ clock < MaxTime
       \/ \E i \in Sleeping : clock < wakeAt[i]
    /\ clock' = clock + 1
    /\ UNCHANGED <<inputVars, mainVars, pc, now, wait, wakeAt, body, httpStatus,
                   sent, result, limiterVars>>

\* ------------------------------------------------------------ run()

\* a loop that creates the records list once, before the first chunk
NextChunk_KeepsRecords ==
    /\ mainPc = "loop"
    /\ start < total
    /\ workers >= 1
    /\ chunks' = Append(chunks, ChunkRec(domains, start, CHUNK_SIZE))
    /\ idx' = start + 1
    /\ pc' = [i \in Items |-> IF i \in ChunkItems(start) THEN "queued" ELSE pc[i]]
    /\ mainPc' = "collect"
    /\ UNCHANGED <<inputVars, start, records, progress, sink, saved, exitStatus,
                   now, wait, wakeAt, body, httpStatus, sent, result, clock,
                   limiterVars>>

\* lines 173-179: the next chunk is cut and every item of it is submitted
NextChunk ==
    /\ mainPc = "loop"
    /\ start < total
    /\ workers >= 1
    /\ chunks' = Append(chunks, ChunkRec(domains, start, CHUNK_SIZE))
    /\ records' = <<>>
    /\ idx' = start + 1
    /\ pc' = [i \in Items |-> IF i \in ChunkItems(start) THEN "queued" ELSE pc[i]]
    /\ mainPc' = "collect"
    /\ UNCHANGED <<inputVars, start, progress, sink, saved, exitStatus, now, wait,
                   wakeAt, body, httpStatus, sent, result, clock, limiterVars>>

\* lines 173-178 with workers < 1: ThreadPoolExecutor(max_workers=...) raises
\* ValueError before anything is submitted; lines 240-242 exit with status 1
PoolError ==
    /\ mainPc = "loop"
    /\ start < total
    /\ workers < 1
    /\ chunks' = Append(chunks, ChunkRec(domains, start, CHUNK_SIZE))
    /\ records' = <<>>
    /\ mainPc' = "pool_error"
    /\ exitStatus' = 1
    /\ UNCHANGED <<inputVars, start, idx, progress, sink, saved, pc, now, wait,
                   wakeAt, body, httpStatus, sent, result, clock, limiterVars>>

\* a collect loop that appends a record whatever the outcome was
Collect_AppendAlways(i) ==
    /\ mainPc = "collect"
    /\ pc[i] = "finished"
    /\ records' = Append(records, Record(domains[i]))
    /\ progress' = Append(progress, [ok |-> result[i] = "ok", idx |-> idx,
                                     domain |-> domains[i]])
    /\ idx' = idx + 1
    /\ pc' = [pc EXCEPT ![i] = "collected"]
    /\ httpStatus' = [httpStatus EXCEPT ![i] = 0]
    /\ UNCHANGED <<inputVars, mainPc, start, chunks, sink, saved, exitStatus, now,
                   wait, wakeAt, body, sent, result, clock, limiterVars>>

\* a collect loop that submits a failed item again
Collect_Requeue(i) ==
    /\ mainPc = "collect"
    /\ pc[i] = "finished"
    /\ records' = IF result[i] = "ok" THEN Append(records, Record(domains[i]))
                                      ELSE records
    /\ pc' = [pc EXCEPT ![i] = IF result[i] = "ok" THEN "collected" ELSE "queued"]
    /\ result' = [result EXCEPT ![i] = IF result[i] = "ok" THEN "ok" ELSE "none"]
    /\ sent' = [sent EXCEPT ![i] = IF result[i] = "ok" THEN @ ELSE 0]
    /\ httpStatus' = [httpStatus EXCEPT ![i] = 0]
    /\ UNCHANGED <<inputVars, mainPc, start, chunks, idx, progress, sink, saved,
                   exitStatus, now, wait, wakeAt, body, clock, limiterVars>>

\* lines 180-188: as_completed yields a finished future
Collect(i) ==
    /\ mainPc = "collect"
    /\ pc[i] = "finished"
    /\ records' = IF result[i] = "ok" THEN Append(records, Record(domains[i]))
                                      ELSE records
    /\ progress' = Append(progress, [ok |-> result[i] = "ok", idx |-> idx,
                                     domain |-> domains[i]])
    /\ idx' = idx + 1
    /\ pc' = [pc EXCEPT ![i] = "collected"]
    /\ httpStatus' = [httpStatus EXCEPT ![i] = 0]
    /\ UNCHANGED <<inputVars, mainPc, start, chunks, sink, saved, exitStatus, now,
                   wait, wakeAt, body, sent, result, clock, limiterVars>>

\* a collect loop that stops at the first future yielded
ChunkCollected_First == \E i \in ChunkItems(start) : pc[i] = "collected"

\* the as_completed loop is exhausted: every future of the chunk was yielded
ChunkCollected == \A i \in ChunkItems(start) : pc[i] = "collected"

\* lines 190-192: the chunk's records are appended to the results file
FlushOk ==
    /\ mainPc = "collect"
    /\ ChunkCollected
    /\ sink' = sink \o records
    /\ saved' = saved + 1
    /\ start' = NextStart(start, CHUNK_SIZE)
    /\ mainPc' = "loop"
    /\ UNCHANGED <<inputVars, chunks, records, idx, progress, exitStatus, pc, now,
                   wait, wakeAt, body, httpStatus, sent, result, clock, limiterVars>>

\* a failing append that had reopened the file for writing, not appending
FlushFail_Truncates ==
    /\ mainPc = "collect"
    /\ ChunkCollected
    /\ \E k \in 0..Len(records) : sink' = SubSeq(records, 1, k)
    /\ mainPc' = "failed"
    /\ exitStatus' = 1
    /\ UNCHANGED <<inputVars, start, chunks, records, idx, progress, saved, pc, now,
                   wait, wakeAt, body, httpStatus, sent, result, clock, limiterVars>>

\* lines 190-191 raise (the file cannot be written, possibly after some rows);
\* lines 240-242: the exception is logged and the process exits with status 1
FlushFail ==
    /\ mainPc = "collect"
    /\ ChunkCollected
    /\ \E k \in 0..Len(records) : sink' = sink \o SubSeq(records, 1, k)
    /\ mainPc' = "failed"
    /\ exitStatus' = 1
    /\ UNCHANGED <<inputVars, start, chunks, records, idx, progress, saved, pc, now,
                   wait, wakeAt, body, httpStatus, sent, result, clock, limiterVars>>

\* a run that reports item failures through its exit status
AllDone_FailsOnItemFailure ==
    /\ mainPc = "loop"
    /\ start >= total
    /\ mainPc' = "done"
    /\ exitStatus' = IF \E i \in Items : result[i] = "fail" THEN 1 ELSE 0
    /\ UNCHANGED <<inputVars, start, chunks, records, idx, progress, sink, saved,
                   pc, now, wait, wakeAt, body, httpStatus, sent, result, clock,
                   limiterVars>>

\* line 193: the loop is over; __main__ falls off its end (exit status 0)
AllDone ==
    /\ mainPc = "loop"
    /\ start >= total
    /\ mainPc' = "done"
    /\ exitStatus' = 0
    /\ UNCHANGED <<inputVars, start, chunks, records, idx, progress, sink, saved,
                   pc, now, wait, wakeAt, body, httpStatus, sent, result, clock,
                   limiterVars>>

\* ------------------------------------------------------------ __main__

engineVars == <<pc, now, wait, wakeAt, body, httpStatus, sent, result, clock>>

\* lines 231-234: the input path does not exist
InputMissing ==
    /\ mainPc = "main"
    /\ inputFile = "missing"
    /\ mainPc' = "input_error"
    /\ exitStatus' = 1
    /\ UNCHANGED <<inputVars, start, chunks, records, idx, progress, sink, saved,
                   engineVars, limiterVars>>

\* line 159: DomainReader.read raises (unreadable file, unsupported suffix, bad
\* JSON); lines 240-242 exit with status 1
ReadFails ==
    /\ mainPc = "main"
    /\ inputFile = "unreadable"
    /\ mainPc' = "input_error"
    /\ exitStatus' = 1
    /\ UNCHANGED <<inputVars, start, chunks, records, idx, progress, sink, saved,
                   engineVars, limiterVars>>

\* lines 159-171: the input is read and the results file gets its header
ReadInput ==
    /\ mainPc = "main"
    /\ inputFile = "ok"
    /\ mainPc' = "loop"
    /\ UNCHANGED <<inputVars, start, chunks, records, idx, progress, sink, saved,
                   exitStatus, engineVars, limiterVars>>

\* ------------------------------------------------------------ specification

\* the variables of the lookup tasks and of the limiter, before any lookup
IdleEngine ==
    /\ pc = [i \in Items |-> "pending"]
    /\ now = [i \in Items |-> 0]
    /\ wait = [i \in Items |-> 0]
    /\ wakeAt = [i \in Items |-> 0]
    /\ body = [i \in Items |-> "none"]
    /\ httpStatus = [i \in Items |-> 0]
    /\ sent = [i \in Items |-> 0]
    /\ result = [i \in Items |-> "none"]
    /\ clock = 0
    /\ next_allowed_time = 0
    /\ rate_limit_lock = 0

\* __main__ at line 230; domains and total are what DomainReader.read gives for
\* the file (nothing for a file that is missing or cannot be read)
Init ==
    /\ inputFile \in {"missing", "unreadable", "ok"}
    /\ total \in 0..MaxItems
    /\ inputFile # "ok" => total = 0
    /\ domains \in [1..total -> Names]
    /\ workers \in 0..MaxWorkers
    /\ CHUNK_SIZE \in 1..MaxChunkSize
    /\ response = NoResponse
    /\ mainPc = "main"
    /\ start = 0
    /\ chunks = <<>>
    /\ records = <<>>
    /\ idx = 0
    /\ progress = <<>>
    /\ sink = <<>>
    /\ saved = 0
    /\ exitStatus = -1
    /\ IdleEngine

Next ==
    \/ InputMissing
    \/ ReadFails
    \/ ReadInput
    \/ NextChunk
    \/ PoolError
    \/ \E i \in Items : Collect(i)
    \/ FlushOk
    \/ FlushFail
    \/ AllDone
    \/ \E i \in Items : StartLookup(i)
    \/ \E i \in Items : WaitAcquire(i)
    \/ \E i \in Items : WaitCheck(i)
    \/ \E i \in Items : WaitRecheck(i)
    \/ \E i \in Items : WaitWake(i)
    \/ \E i \in Items : Send(i)
    \/ \E i \in Items : TransportError(i)
    \/ \E i \in Items : Receive(i)
    \/ \E i \in Items : ReceiveLimit(i)
    \/ \E i \in Items : HandleAcquire(i)
    \/ \E i \in Items : HandleSet(i)
    \/ \E i \in Items : HandleWake(i)
    \/ Tick

Spec == Init /\ [][Next]_vars

\* ------------------------------------------------ the chunk loop on its own

\* run() at line 172 for longer inputs and larger chunk sizes
InitChunks ==
    /\ total \in 0..MaxLoopItems
    /\ domains \in [1..total -> Names]
    /\ workers = 1
    /\ inputFile = "ok"
    /\ response = NoResponse
    /\ CHUNK_SIZE \in 1..MaxLoopChunk
    /\ mainPc = "loop"
    /\ start = 0
    /\ chunks = <<>>
    /\ records = <<>>
    /\ idx = 0
    /\ progress = <<>>
    /\ sink = <<>>
    /\ saved = 0
    /\ exitStatus = -1
    /\ IdleEngine

\* lines 173-175: one iteration of the loop, its body left out
CutChunk ==
    /\ mainPc = "loop"
    /\ start < total
    /\ chunks' = Append(chunks, ChunkRec(domains, start, CHUNK_SIZE))
    /\ start' = NextStart(start, CHUNK_SIZE)
    /\ UNCHANGED <<inputVars, mainPc, records, idx, progress, sink, saved,
                   exitStatus, pc, now, wait, wakeAt, body, httpStatus, sent,
                   result, clock, limiterVars>>

NextChunks ==
    \/ CutChunk
    \/ AllDone

SpecChunks == InitChunks /\ [][NextChunks]_vars

\* ------------------------------------- one response through _handle_rate_limit

\* header values a server can send, negative integers included
RlHeaders == RlValues \cup {IntHeader(-1)}
TtlHeaders == TtlValues \cup {IntHeader(-1)}

\* reqapi_ia_get_result at line 61 for a single item: its request is out, the
\* response is chosen, the watermark is wherever earlier responses left it
InitHeaders ==
    /\ inputFile = "ok"
    /\ total = 1
    /\ domains = <<"a.com">>
    /\ workers = 1
    /\ CHUNK_SIZE = 1
    /\ response \in [rl : RlHeaders, ttl : TtlHeaders, body : Bodies]
    /\ mainPc = "collect"
    /\ start = 0
    /\ chunks = <<ChunkRec(domains, 0, 1)>>
    /\ records = <<>>
    /\ idx = 1
    /\ progress = <<>>
    /\ sink = <<>>
    /\ saved = 0
    /\ exitStatus = -1
    /\ pc = <<"inflight">>
    /\ now = <<0>>
    /\ wait = <<0>>
    /\ wakeAt = <<0>>
    /\ body = <<"none">>
    /\ httpStatus = <<0>>
    /\ sent = <<1>>
    /\ result = <<"none">>
    /\ clock \in 0..MaxTime
    /\ next_allowed_time \in 0..(clock + MaxTTL)
    /\ rate_limit_lock = 0

\* lines 61-64 for the chosen response
ReceiveChosen ==
    \E st \in StatusCodes :
        ReceiveOf(1, st, response.rl, response.ttl, response.body)

ReceiveLimitChosen ==
    \E st \in StatusCodes :
        ReceiveLimitOf(1, st, response.rl, response.ttl, response.body)

NextHeaders ==
    \/ ReceiveChosen
    \/ ReceiveLimitChosen
    \/ HandleAcquire(1)
    \/ HandleSet(1)
    \/ HandleWake(1)
    \/ Tick

SpecHeaders == InitHeaders /\ [][NextHeaders]_vars

\* ------------------------------- a run whose input and sink give no error

\* __main__ at line 230 with a readable input file
InitLive ==
    /\ inputFile = "ok"
    /\ total \in 0..MaxLiveItems
    /\ domains = [i \in 1..total |-> "a.com"]
    /\ workers \in 0..MaxWorkers
    /\ CHUNK_SIZE \in 1..MaxChunkSize
    /\ response = NoResponse
    /\ mainPc = "main"
    /\ start = 0
    /\ chunks = <<>>
    /\ records = <<>>
    /\ idx = 0
    /\ progress = <<>>
    /\ sink = <<>>
    /\ saved = 0
    /\ exitStatus = -1
    /\ IdleEngine

\* every network call resolves (Receive, ReceiveLimit, TransportError) and
\* every append to the results file succeeds (no FlushFail)
NextLive ==
    \/ ReadInput
    \/ NextChunk
    \/ PoolError
    \/ \E i \in Items : Collect(i)
    \/ FlushOk
    \/ AllDone
    \/ \E i \in Items : TaskStep(i)
    \/ Tick

\* the main thread and the pool threads keep running and time keeps passing:
\* the process does not stop while one of them can take a step
SpecLive == InitLive /\ [][NextLive]_vars /\ WF_vars(NextLive)

\* ------------------------------------------------------------ properties

\* C1: the watermark never decreases: no step of any task sets
\* _next_allowed_time to a value lower than the one it had.
C1_WatermarkMonotone == [][next_allowed_time' >= next_allowed_time]_vars

\* some task sleeps out a limit it received: a response with X-Rl 0 and X-Ttl T
\* was handled at time t, wakeAt is t + T, and that time has not come
LimitActiveFor(j) == pc[j] = "h_sleep" /\ clock < wakeAt[j]

\* C2: while the time t + T of a received limit response has not come, no other
\* lookup issues its request.
C2_NoDispatchDuringLimit ==
    [][\A i \in Items :
          (pc[i] = "send" /\ pc'[i] = "inflight")
              => \A j \in Items \ {i} : ~LimitActiveFor(j)]_vars

RECURSIVE Count(_, _)
Count(seq, r) ==
    IF seq = <<>> THEN 0
    ELSE (IF seq[1] = r THEN 1 ELSE 0) + Count(Tail(seq), r)

\* the failures the run reports: its progress lines with the failure icon
FailureLines == {k \in 1..Len(progress) : ~progress[k].ok}

\* progress lines that name domain d
LinesFor(d) == {k \in 1..Len(progress) : progress[k].domain = d}

\* C4: when the run completes, the sink holds exactly one record per item whose
\* lookup succeeded and none for a failed item, and the number of failures
\* reported equals the number of items minus the number of records.
C4_SinkHoldsSuccesses ==
    mainPc = "done" =>
        /\ \A d \in Names :
              Count(sink, Record(d))
                  = Cardinality({i \in Items : domains[i] = d /\ result[i] = "ok"})
        /\ Cardinality(FailureLines) = total - Len(sink)

\* C4 witness: a completed run with a success for a.com and a failure for b.com
C4_Witness ==
    /\ mainPc = "done"
    /\ \E i, j \in Items :
          /\ domains[i] = "a.com" /\ result[i] = "ok"
          /\ domains[j] = "b.com" /\ result[j] = "fail"

\* the items of the chunks cut so far, one after the other
RECURSIVE Flatten(_)
Flatten(cs) ==
    IF cs = <<>> THEN <<>> ELSE cs[1].items \o Flatten(Tail(cs))

\* the chunks cut so far that hold position i
ChunksHolding(i) ==
    {k \in 1..Len(chunks) : chunks[k].start < i /\ i <= chunks[k].end}

\* C5: the chunks cut so far, concatenated in loop order, are the input up to
\* the last chunk's end, every position up to there lies in exactly one chunk,
\* and when the loop is over the concatenation is the whole input.
C5_ChunksPartition ==
    LET covered == IF chunks = <<>> THEN 0 ELSE chunks[Len(chunks)].end IN
    /\ Flatten(chunks) = SubSeq(domains, 1, covered)
    /\ \A i \in 1..covered : Cardinality(ChunksHolding(i)) = 1
    /\ \A i \in (covered + 1)..total : ChunksHolding(i) = {}
    /\ mainPc = "done" => Flatten(chunks) = domains

\* C5 witness: the loop is over after several chunks, the last one short
C5_Witness ==
    /\ mainPc = "done"
    /\ Len(chunks) >= 2
    /\ Len(chunks[Len(chunks)].items) < CHUNK_SIZE
    /\ CHUNK_SIZE >= 2

\* 0-based number of the chunk that holds item i
ChunkIndex(i) == (i - 1) \div CHUNK_SIZE

\* C6: an item is submitted only when every earlier chunk has been appended to
\* the sink, and a chunk is appended only when each of its items has an outcome
\* that the main thread has collected.
C6_ChunkBoundaries ==
    \A i \in Items :
        /\ pc[i] # "pending" => saved >= ChunkIndex(i)
        /\ saved > ChunkIndex(i) => (result[i] # "none" /\ pc[i] = "collected")

\* C6 witness: the second chunk is being looked up after the first was appended
C6_Witness ==
    /\ saved = 1
    /\ \E i \in Items : ChunkIndex(i) = 1 /\ pc[i] \in Running

\* C7: the number of lookups started and not yet returned never exceeds the
\* worker count.
C7_PoolBounded == Cardinality(InFlight) <= workers

\* C7 witness: every worker is busy and an item of the chunk still waits
C7_Witness ==
    /\ Cardinality(InFlight) = workers
    /\ \E i \in Items : pc[i] = "queued"

\* C8: every submitted item gets exactly one outcome and exactly one progress
\* line, and the pool loop ends only when every submitted item was collected:
\* no lookup failure ends the loop early.
C8_OneOutcomePerItem ==
    /\ \A d \in Names :
          Cardinality(LinesFor(d))
              = Cardinality({i \in Items : domains[i] = d /\ pc[i] = "collected"})
    /\ \A i \in Items : pc[i] \in {"finished", "collected"} <=> result[i] # "none"
    /\ mainPc # "collect" => \A i \in Items : pc[i] \in {"pending", "collected"}
    /\ mainPc # "collect" => \A i \in Items : pc[i] = "collected" => result[i] # "none"

\* C8 witness: the chunk was appended after one item failed in the rate-limit
\* wait (no request sent) and another after a request
C8_Witness ==
    /\ mainPc = "loop"
    /\ \E i, j \in Items :
          /\ pc[i] = "collected" /\ result[i] = "fail" /\ sent[i] = 0
          /\ pc[j] = "collected" /\ sent[j] = 1

\* C9: a lookup whose response had status 500, 502, 503 or 504 produces its
\* outcome only after the request was issued again.
C9_RetryOn5xx ==
    \A i \in Items :
        (pc[i] = "finished" /\ httpStatus[i] \in RetryStatuses) => sent[i] >= 2

\* seq is kept as the first rows of seq2
KeepsRows(seq, seq2) ==
    Len(seq2) >= Len(seq) /\ SubSeq(seq2, 1, Len(seq)) = seq

\* C10: when the append of a chunk fails the exit status is 1, the rows already
\* in the sink stay as they are, no item of a later chunk is ever submitted, and
\* nothing of this changes afterwards.
C10_SinkFailureStops ==
    [][mainPc' = "failed" =>
          /\ exitStatus' = 1
          /\ KeepsRows(sink, sink')
          /\ mainPc = "failed" => sink' = sink
          /\ \A i \in Items :
                i > ChunkEnd(start', CHUNK_SIZE, total) => pc'[i] = "pending"]_vars

\* C10 witness: the append of chunk 2 of 3 failed with a row of chunk 1 in the sink
C10_Witness ==
    /\ mainPc = "failed"
    /\ saved = 1
    /\ Len(chunks) = 2
    /\ ChunkEnd(start, CHUNK_SIZE, total) < total
    /\ result[1] = "ok"
    /\ sink # <<>>

\* C11 (as stated): the exit status is non-zero only after an input error or a
\* failed append to the sink.
C11_NonZeroOnlyInputOrSink ==
    exitStatus \notin {-1, 0} => mainPc \in {"input_error", "failed"}

\* C11 (amended): the exit status is non-zero only after an input error, a
\* failed append or a worker count below 1 met with a non-empty input; the input
\* error and the worker-count error leave every item without a lookup; any other
\* run ends with status 0 after every chunk was appended, whatever the outcomes.
C11_ExitStatus ==
    /\ exitStatus \notin {-1, 0} => mainPc \in {"input_error", "failed", "pool_error"}
    /\ mainPc = "input_error" => inputFile # "ok"
    /\ mainPc = "pool_error" => (workers < 1 /\ total > 0)
    /\ mainPc \in {"input_error", "pool_error"} =>
          /\ \A i \in Items : pc[i] = "pending" /\ sent[i] = 0 /\ result[i] = "none"
          /\ progress = <<>>
    /\ mainPc = "done" =>
          /\ exitStatus = 0
          /\ start >= total
          /\ \A i \in Items : result[i] # "none"
          /\ saved = Len(chunks)
    /\ exitStatus = 0 => mainPc = "done"

\* C11 witness: a run of two chunks in which every lookup failed ended with
\* exit status 0
C11_Witness ==
    /\ mainPc = "done"
    /\ exitStatus = 0
    /\ saved >= 2
    /\ total >= 2
    /\ \A i \in Items : result[i] = "fail"

\* the headers say the limit is exhausted: X-Rl is the integer 0 and X-Ttl an
\* integer above 0
Exhausted(r) ==
    /\ r.rl.kind = "int" /\ r.rl.val = 0
    /\ r.ttl.kind = "int" /\ r.ttl.val > 0

\* C12: the watermark changes only for headers with remaining = 0 and ttl > 0;
\* for any other headers (absent, not an integer, remaining # 0, ttl <= 0)
\* _handle_rate_limit leaves watermark and lock alone and returns without
\* error, so the lookup's outcome is the one its body gives.
C12_HeadersNoOp ==
    [][/\ next_allowed_time' # next_allowed_time => Exhausted(response)
       /\ (~Exhausted(response) /\ pc[1] = "inflight" /\ pc'[1] # "inflight") =>
             /\ next_allowed_time' = next_allowed_time
             /\ rate_limit_lock' = rate_limit_lock
             /\ pc'[1] = "finished"
             /\ result'[1] = LookupResult(response.body)]_vars

\* C12 witness: a call with an X-Ttl that is no integer has returned, the
\* lookup succeeded, and the watermark is still ahead of the clock
C12_Witness ==
    /\ response.ttl.kind = "bad"
    /\ response.rl = IntHeader(0)
    /\ pc[1] = "finished"
    /\ result[1] = "ok"
    /\ next_allowed_time > clock

\* C13: a lookup whose response body cannot be parsed leaves the watermark as
\* it was.
C13_MalformedBodyNoUpdate ==
    [][\A i \in Items :
          (body[i] = "malformed" /\ pc[i] = "h_set" /\ pc'[i] # "h_set")
              => next_allowed_time' = next_allowed_time]_vars

\* positions of a task whose next step reads or writes the watermark:
\* line 21 (w_check), line 25 (w_recheck), line 49 (h_set)
TouchesWatermark == {"w_check", "w_recheck", "h_set"}

\* C14: every step of a task that reads or writes the watermark is taken while
\* that task holds the rate-limit lock.
C14_AccessUnderLock ==
    [][\A i \in Items :
          (pc[i] \in TouchesWatermark /\ pc'[i] # pc[i]) => rate_limit_lock = i]_vars

\* C15: a sleeping task never holds the lock, and whoever holds the lock is in
\* one of the two short locked sections, not asleep.
C15_NoSleepInLock ==
    /\ \A i \in Sleeping : rate_limit_lock # i
    /\ rate_limit_lock # 0 =>
          (rate_limit_lock \in Items /\ pc[rate_limit_lock] \in {"w_check", "h_set"})

\* C15 witness: one task sleeps out a limit while another holds the lock for
\* its check of the watermark
C15_Witness ==
    \E i, j \in Items :
        /\ pc[i] = "h_sleep" /\ clock < wakeAt[i]
        /\ pc[j] = "w_check" /\ rate_limit_lock = j

\* the task of item i has started or is queued and can take no step now
Blocked(i) == pc[i] \in Running \cup {"queued"} /\ ~ENABLED TaskStep(i)

\* C16 (as stated): no worker is held up inside _handle_rate_limit by the TTL
\* of the response it received.
C16_RecordingDoesNotBlock ==
    \A i \in Items : ~(pc[i] = "h_sleep" /\ Blocked(i))

\* C16 (amended): a task is held up only while queued for a pool thread, while
\* waiting for the rate-limit lock, or in one of the two sleeps; the worker that
\* received remaining = 0 and ttl = T sets the watermark, then sleeps T seconds
\* with no outcome yet, and produces its outcome only when they have passed.
C16_BlockingPoints ==
    [][\A i \in Items :
          /\ Blocked(i) =>
                \/ pc[i] = "queued"
                \/ pc[i] \in {"w_lock", "h_lock"} /\ rate_limit_lock # 0
                \/ pc[i] \in {"w_sleep", "h_sleep"} /\ clock < wakeAt[i]
          /\ (pc[i] = "h_set" /\ pc'[i] # "h_set") =>
                /\ pc'[i] = "h_sleep"
                /\ result'[i] = "none"
                /\ wakeAt'[i] = clock + wait[i]
          /\ (pc[i] = "h_sleep" /\ pc'[i] # "h_sleep") =>
                /\ clock >= wakeAt[i]
                /\ result'[i] # "none"]_vars

\* C16 witness: a worker sleeps out the TTL of its own successful response
\* while the next item of the chunk waits for its pool thread
C16_Witness ==
    \E i, j \in Items :
        /\ pc[i] = "h_sleep" /\ clock < wakeAt[i] /\ body[i] = "success"
        /\ pc[j] = "queued"

\* the run is over: every item has its outcome and every chunk was flushed
Done ==
    /\ mainPc = "done"
    /\ \A i \in Items : pc[i] = "collected" /\ result[i] # "none"
    /\ saved = Len(chunks)
    /\ start >= total

\* C17 (as stated): every run with a readable input whose network calls
\* resolve and whose appends succeed eventually reaches Done.
C17_AlwaysReachesDone == <>Done

\* C17 (amended): with at least one worker such a run eventually reaches
\* Done, and a task that sleeps in _wait_for_rate_limit sleeps for a time
\* between 1 and the largest TTL a response carries, and the worker that
\* sleeps in _handle_rate_limit sleeps the TTL it received.
C17_ReachesDone ==
    /\ (workers >= 1) => <>Done
    /\ [](\A i \in Items :
             /\ pc[i] = "w_sleep" => (wait[i] \in 1..MaxTTL /\ wakeAt[i] <= clock + wait[i])
             /\ pc[i] = "h_sleep" => (wait[i] \in 1..MaxTTL /\ wakeAt[i] <= clock + wait[i]))

\* C17 witness: a run of two chunks is over, and a limit response was
\* received and slept out on the way
C17_Witness ==
    /\ Done
    /\ workers >= 1
    /\ Len(chunks) >= 2
    /\ next_allowed_time > 0

\* positions of a task in the order a lookup goes through them
Started == Running \cup {"finished", "collected"}

\* C18: lookup is invoked once for every item and never again: an item is
\* submitted only if it never was, its lookup starts only from the pool's queue
\* with no outcome and no request yet, an item that was submitted is never
\* submitted or started again (whatever its outcome), no item has more than
\* one request, and a completed run has collected one outcome for every item.
C18_LookedUpOnce ==
    /\ [](/\ \A i \in Items : sent[i] <= 1
          /\ mainPc = "done" =>
                \A i \in Items : pc[i] = "collected" /\ result[i] # "none")
    /\ [][\A i \in Items :
             /\ (pc'[i] = "queued" /\ pc[i] # "queued") => pc[i] = "pending"
             /\ (pc'[i] = "w_lock" /\ pc[i] # "w_lock") =>
                   (pc[i] = "queued" /\ result[i] = "none" /\ sent[i] = 0)
             /\ pc[i] \in Started => pc'[i] \in Started
             /\ pc[i] # "pending" => pc'[i] # "pending"
             /\ result[i] # "none" => result'[i] = result[i]]_vars

\* C18 witness: the run is over after more than one chunk, and an item of the
\* first chunk failed after its one request
C18_Witness ==
    /\ mainPc = "done"
    /\ Len(chunks) >= 2
    /\ \E i \in Items :
          i <= chunks[1].end /\ result[i] = "fail" /\ sent[i] = 1

\* positions of the chunk cut last (the one in flight while mainPc = "collect")
CurrentChunk ==
    IF chunks = <<>> THEN {}
    ELSE (chunks[Len(chunks)].start + 1)..chunks[Len(chunks)].end

\* C19: the results buffer holds at most CHUNK_SIZE records, all of them
\* records of collected successes of the chunk cut last, one each, and it is
\* empty while no future of that chunk has been collected.
C19_BufferOneChunk ==
    /\ Len(records) <= CHUNK_SIZE
    /\ \A k \in 1..Len(records) : \E d \in Names : records[k] = Record(d)
    /\ \A d \in Names :
          Count(records, Record(d))
              = Cardinality({i \in CurrentChunk :
                                /\ domains[i] = d
                                /\ pc[i] = "collected"
                                /\ result[i] = "ok"})
    /\ (mainPc = "collect" /\ \A i \in CurrentChunk : pc[i] # "collected")
          => records = <<>>

\* C19 witness: the first chunk left a record in the sink, and the second
\* chunk is in flight with nothing collected yet
C19_Witness ==
    /\ mainPc = "collect"
    /\ Len(chunks) = 2
    /\ sink # <<>>
    /\ \A i \in CurrentChunk : pc[i] \in Running

\* C20: an item whose outcome is a failure had its request issued.
C20_NoFailureWithoutRequest ==
    \A i \in Items : result[i] = "fail" => sent[i] >= 1

====
